---- MODULE Spec2Model ----
(***************************************************************************)
(* Model of the ILI9488 display models of mipidsi                          *)
(* (src/mipidsi/src/models/ili9488.rs): the two Model implementations      *)
(* ILI9488Rgb565 and ILI9488Rgb666, their init sequence (reset choice,     *)
(* fixed waits, init_common register writes) and their pixel encoders      *)
(* (write_pixels).                                                         *)
(*                                                                         *)
(* The collaborators (command channel, delay provider, reset pin) are the  *)
(* environment: every channel write and every pin operation may fail, a    *)
(* delay never fails.  Everything a call does to a collaborator is         *)
(* appended to `trace`, in program order.                                  *)
(***************************************************************************)
EXTENDS Integers, Sequences, FiniteSets, TLC

\* ---------------------------------------------------------------- bounds
\* longest color sequence handed to write_pixels
MaxColors ==
    2
\* number of calls made on one Model instance
MaxCalls ==
    2

\* ---------------------------------------------------------------- inputs
Variants ==
    {"ILI9488Rgb565", "ILI9488Rgb666"}

\* ModelOptions: the fields init reads (invert_colors directly, the others
\* through SetAddressMode::from).  The sizes are never read by init.
ModelOptionsSet ==
    [invert_colors : BOOLEAN,
     orientation   : {"Portrait", "Landscape"},
     color_order   : {"Rgb", "Bgr"}]

\* sample Rgb565 colors (r, b in 0..31, g in 0..63)
Rgb565Colors ==
    { [r |-> 0,  g |-> 0,  b |-> 0],
      [r |-> 31, g |-> 63, b |-> 31],
      [r |-> 1,  g |-> 2,  b |-> 3],
      [r |-> 16, g |-> 8,  b |-> 0] }

\* sample Rgb666 colors (r, g, b in 0..63)
Rgb666Colors ==
    { [r |-> 0,  g |-> 0,  b |-> 0],
      [r |-> 63, g |-> 63, b |-> 63],
      [r |-> 1,  g |-> 2,  b |-> 3],
      [r |-> 32, g |-> 63, b |-> 21] }

ColorFormat(v) ==
    IF v = "ILI9488Rgb565" THEN Rgb565Colors ELSE Rgb666Colors

SeqsUpTo(S, n) ==
    UNION { [1..m -> S] : m \in 0..n }

\* ---------------------------------------------------------------- state
VARIABLES
    variant,    \* which Model this instance is
    op,         \* the call in progress: "none", "init", "write_pixels"
    pc,         \* position inside the call
    options,    \* init's `options` argument
    rst,        \* init's `rst` argument: TRUE = Some(pin), FALSE = None
    colors,     \* write_pixels' `colors` argument
    k,          \* index of the next statement of init_common
    pos,        \* number of colors taken from `colors` by the iterator
    pending,    \* flat_map's current inner array, not yet yielded
    sent,       \* the items the channel has pulled from the iterator
    trace,      \* operations performed on the collaborators by this call
    result,     \* "none", "Ok", "Pin", "DisplayError"
    ret,        \* the value inside Ok(..) of init
    ncalls,     \* calls started on this instance
    okInits,    \* init calls that returned Ok
    announced,  \* bits per pixel the controller was last told (0: never)
    prev        \* the last call that returned, kept for comparing calls

vars ==
    <<variant, op, pc, options, rst, colors, k, pos, pending, sent,
      trace, result, ret, ncalls, okInits, announced, prev>>

NoOptions ==
    [invert_colors |-> FALSE, orientation |-> "Portrait", color_order |-> "Rgb"]

NoRet ==
    <<>>

\* no call has returned yet
NoPrev ==
    [valid |-> FALSE, same |-> FALSE, variant |-> "", op |-> "none",
     options |-> NoOptions, rst |-> FALSE, colors |-> <<>>,
     trace |-> <<>>, result |-> "none", ret |-> NoRet]

Ev(kind, by, name, arg, ok) ==
    [kind |-> kind, by |-> by, name |-> name, arg |-> arg, ok |-> ok]

\* ------------------------------------------------- values sent by init
\* channel widths of the variant's ColorFormat (Rgb565 / Rgb666)
ChannelBits(v) ==
    IF v = "ILI9488Rgb565" THEN <<5, 6, 5>> ELSE <<6, 6, 6>>

\* BitsPerPixel::from_rgb_color::<Self::ColorFormat>()
BitsPerPixel_from_rgb_color(v) ==
    ChannelBits(v)[1] + ChannelBits(v)[2] + ChannelBits(v)[3]

\* PixelFormat::with_all(bpp)
PixelFormat_with_all(bpp) ==
    [dpi |-> bpp, dbi |-> bpp]

\* the pixel format of the 16-bit variant used by both variants
init_pf_copied(v) ==
    PixelFormat_with_all(BitsPerPixel_from_rgb_color("ILI9488Rgb565"))

\* let pf = PixelFormat::with_all(BitsPerPixel::from_rgb_color::<..>());
init_pf(v) ==
    PixelFormat_with_all(BitsPerPixel_from_rgb_color(v))

\* SetAddressMode::from(options): the addressing-mode byte
SetAddressMode_from(o) ==
    (IF o.orientation = "Landscape" THEN 32 ELSE 0)
    + (IF o.color_order = "Bgr" THEN 8 ELSE 0)

\* the Instruction enum
GMCTRP1 ==
    224
GMCTRN1 ==
    225
PWCTR1 ==
    192
PWCTR2 ==
    193
VMCTR1 ==
    197
FRMCTR1 ==
    177
DFUNCTR ==
    182
SIMFUNC ==
    233

\* the inversion flag sent negated
Cmd_invert_negated(name, arg) ==
    [kind |-> "cmd", name |-> name,
     arg |-> IF name = "SetInvertMode" THEN ~arg ELSE arg]

\* dcs.write_command(..)
Cmd(name, arg) ==
    [kind |-> "cmd", name |-> name, arg |-> arg]

\* the display-function payload chosen from the orientation
Raw_by_orientation(instr, params) ==
    [kind |-> "raw", name |-> "write_raw",
     arg |-> [instr |-> instr,
              params |-> IF instr = DFUNCTR /\ options.orientation = "Landscape"
                         THEN <<2, 34, 59>> ELSE params]]

\* dcs.write_raw(instr, params)
Raw(instr, params) ==
    [kind |-> "raw", name |-> "write_raw", arg |-> [instr |-> instr, params |-> params]]

\* the delay taken in milliseconds' worth of the number
DelayUs_truncated(us) ==
    [kind |-> "delay", name |-> "delay_us", arg |-> us \div 1000]

\* delay.delay_us(us)
DelayUs(us) ==
    [kind |-> "delay", name |-> "delay_us", arg |-> us]

\* init_common with the pixel format written before the inversion
init_common_swapped(o, pixel_format) ==
    << Cmd("SetAddressMode", SetAddressMode_from(o)),
       Cmd("SetPixelFormat", pixel_format),
       Cmd("SetInvertMode", o.invert_colors),
       Raw(PWCTR1, <<23, 21>>),
       Raw(PWCTR2, <<65>>),
       Raw(VMCTR1, <<0, 18, 128>>),
       Raw(FRMCTR1, <<160>>),
       Raw(SIMFUNC, <<0>>),
       Raw(GMCTRP1, <<0, 3, 9, 8, 22, 10, 63, 120, 76, 9, 10, 8, 22, 26, 15>>),
       Raw(GMCTRN1, <<0, 14, 20, 3, 17, 7, 49, 193, 72, 8, 15, 12, 49, 54, 15>>),
       Raw(DFUNCTR, <<2, 2, 59>>),
       Cmd("ExitSleepMode", <<>>),
       Cmd("EnterNormalMode", <<>>),
       DelayUs(120000),
       Cmd("SetDisplayOn", <<>>) >>

\* the statements of init_common, in program order
init_common(o, pixel_format) ==
    << Cmd("SetAddressMode", SetAddressMode_from(o)),
       Cmd("SetInvertMode", o.invert_colors),
       Cmd("SetPixelFormat", pixel_format),
       Raw(PWCTR1, <<23, 21>>),
       Raw(PWCTR2, <<65>>),
       Raw(VMCTR1, <<0, 18, 128>>),
       Raw(FRMCTR1, <<160>>),
       Raw(SIMFUNC, <<0>>),
       Raw(GMCTRP1, <<0, 3, 9, 8, 22, 10, 63, 120, 76, 9, 10, 8, 22, 26, 15>>),
       Raw(GMCTRN1, <<0, 14, 20, 3, 17, 7, 49, 193, 72, 8, 15, 12, 49, 54, 15>>),
       Raw(DFUNCTR, <<2, 2, 59>>),
       Cmd("ExitSleepMode", <<>>),
       Cmd("EnterNormalMode", <<>>),
       DelayUs(120000),
       Cmd("SetDisplayOn", <<>>) >>

\* Ok(..) of a descriptor built without the options
init_common_ret_default(o) ==
    SetAddressMode_from(NoOptions)

\* Ok(madctl)
init_common_ret(o) ==
    SetAddressMode_from(o)

\* ------------------------------------------------------- error wrapping
\* InitError::Pin, used by hard_reset's map_err
InitError_Pin ==
    "Pin"

\* From<Error> for InitError, applied by `?` in init
InitError_from ==
    "DisplayError"

\* write_pixels returns the channel's error unchanged
Error_DisplayError ==
    "DisplayError"

\* ------------------------------------------------------- pixel encoders
\* Rgb565::into_storage: the packed 5/6/5 value, a u16
into_storage(c) ==
    (c.r * 2048 + c.g * 32 + c.b) % 65536

\* u8 << 3
Shl2_by_three(x) ==
    (x * 8) % 256

\* u8 << 2
Shl2(x) ==
    (x * 4) % 256

\* the closure with the channels in the order blue, green, red
flat_map_closure_bgr(c) ==
    << Shl2(c.b), Shl2(c.g), Shl2(c.r) >>

\* the closure of flat_map in ILI9488Rgb666::write_pixels
flat_map_closure(c) ==
    << Shl2(c.r), Shl2(c.g), Shl2(c.b) >>

\* the 16-bit items handed over as little-endian
DataFormat_little_endian(v) ==
    IF v = "ILI9488Rgb565" THEN "U16LEIter" ELSE "U8Iter"

\* DataFormat handed to send_data
DataFormat(v) ==
    IF v = "ILI9488Rgb565" THEN "U16BEIter" ELSE "U8Iter"

\* bytes the channel puts on the wire for one item of the data format
ItemBytes(fmt, x) ==
    CASE fmt = "U16BEIter" -> << x \div 256, x % 256 >>
      [] fmt = "U16LEIter" -> << x % 256, x \div 256 >>
      [] OTHER             -> << x >>

RECURSIVE WireBytes(_, _)
WireBytes(fmt, items) ==
    IF items = <<>> THEN <<>>
    ELSE ItemBytes(fmt, Head(items)) \o WireBytes(fmt, Tail(items))

\* the iterator built by write_pixels: does next() yield an item?
iter_has_next ==
    pending # <<>> \/ pos < Len(colors)

\* the input walked from its end
iter_next_item_reversed ==
    IF variant = "ILI9488Rgb565"
    THEN into_storage(colors[Len(colors) - pos])
    ELSE IF pending # <<>> THEN Head(pending)
         ELSE Head(flat_map_closure(colors[Len(colors) - pos]))

\* the item next() yields
iter_next_item ==
    IF variant = "ILI9488Rgb565"
    THEN into_storage(colors[pos + 1])
    ELSE IF pending # <<>> THEN Head(pending)
         ELSE Head(flat_map_closure(colors[pos + 1]))

\* colors taken from the input after next()
iter_next_pos ==
    IF variant = "ILI9488Rgb666" /\ pending # <<>> THEN pos ELSE pos + 1

\* flat_map's inner array after next()
iter_next_pending ==
    IF variant = "ILI9488Rgb565" THEN <<>>
    ELSE IF pending # <<>> THEN Tail(pending)
         ELSE Tail(flat_map_closure(colors[pos + 1]))

\* ---------------------------------------------------------------- Init
Init ==
    /\ variant \in Variants
    /\ op = "none"
    /\ pc = "idle"
    /\ options = NoOptions
    /\ rst = FALSE
    /\ colors = <<>>
    /\ k = 0
    /\ pos = 0
    /\ pending = <<>>
    /\ sent = <<>>
    /\ trace = <<>>
    /\ result = "none"
    /\ ret = NoRet
    /\ ncalls = 0
    /\ okInits = 0
    /\ announced = 0
    /\ prev = NoPrev

\* ------------------------------------------------------ the `?` operator
\* the result of the reset step dropped: init always goes on to its wait
QPc_reset_unchecked(ok, next) ==
    IF ok \/ next = "init_delay" THEN next ELSE "done"

\* `expr?` with the error dropped: control always goes on
QPc_ignore(ok, next) ==
    next

\* where control goes after `expr?`
QPc(ok, next) ==
    IF ok THEN next ELSE "done"

\* `expr?` on a channel write with the error wrapped as a pin error
QResult_as_pin(ok, err) ==
    IF ok THEN "none" ELSE "Pin"

\* what the call has returned after `expr?`
QResult(ok, err) ==
    IF ok THEN "none" ELSE err

\* ---------------------------------------------------------------- init
\* the reset skipped once an init has succeeded on this instance
init_match_rst_once(r) ==
    IF okInits > 0 THEN "init_delay"
    ELSE IF r THEN "hard_reset_set_low" ELSE "soft_reset"

\* the match with its arms exchanged
init_match_rst_exchanged(r) ==
    IF r THEN "soft_reset" ELSE "hard_reset_set_low"

\* match rst { Some(..) => hard_reset, None => write_command(SoftReset) }
init_match_rst(r) ==
    IF r THEN "hard_reset_set_low" ELSE "soft_reset"

\* provider-defined pulse width of hard_reset, in microseconds
PulseTimings ==
    {10, 120000}

\* a call of init(dcs, delay, options, rst) begins
init(o, r) ==
    /\ pc = "idle"
    /\ ncalls < MaxCalls
    /\ op' = "init"
    /\ options' = o
    /\ rst' = r
    /\ pc' = init_match_rst(r)
    /\ ncalls' = ncalls + 1
    /\ UNCHANGED <<variant, colors, k, pos, pending, sent, trace, result, ret, okInits, announced, prev>>

\* hard_reset: rst.set_low().map_err(InitError::Pin)?
hard_reset_set_low ==
    /\ pc = "hard_reset_set_low"
    /\ \E ok \in BOOLEAN :
          /\ trace' = Append(trace, Ev("pin", "hard_reset", "set_low", <<>>, ok))
          /\ pc' = QPc(ok, "hard_reset_delay")
          /\ result' = QResult(ok, InitError_Pin)
    /\ UNCHANGED <<variant, op, options, rst, colors, k, pos, pending, sent, ret, ncalls, okInits, announced, prev>>

\* hard_reset: delay.delay_us(..)
hard_reset_delay ==
    /\ pc = "hard_reset_delay"
    /\ \E us \in PulseTimings :
          trace' = Append(trace, Ev("delay", "hard_reset", "delay_us", us, TRUE))
    /\ pc' = "hard_reset_set_high"
    /\ UNCHANGED <<variant, op, options, rst, colors, k, pos, pending, sent, result, ret, ncalls, okInits, announced, prev>>

\* hard_reset: rst.set_high().map_err(InitError::Pin)?
hard_reset_set_high ==
    /\ pc = "hard_reset_set_high"
    /\ \E ok \in BOOLEAN :
          /\ trace' = Append(trace, Ev("pin", "hard_reset", "set_high", <<>>, ok))
          /\ pc' = QPc(ok, "init_delay")
          /\ result' = QResult(ok, InitError_Pin)
    /\ UNCHANGED <<variant, op, options, rst, colors, k, pos, pending, sent, ret, ncalls, okInits, announced, prev>>

\* None => dcs.write_command(SoftReset)?
soft_reset ==
    /\ pc = "soft_reset"
    /\ \E ok \in BOOLEAN :
          /\ trace' = Append(trace, Ev("cmd", "init", "SoftReset", <<>>, ok))
          /\ pc' = QPc(ok, "init_delay")
          /\ result' = QResult(ok, InitError_from)
    /\ UNCHANGED <<variant, op, options, rst, colors, k, pos, pending, sent, ret, ncalls, okInits, announced, prev>>

\* init going on to init_common without the wait
init_delay_skipped ==
    /\ pc = "init_delay"
    /\ pc' = "init_common"
    /\ k' = 1
    /\ UNCHANGED <<variant, op, options, rst, colors, pos, pending, sent, trace, result, ret, ncalls, okInits, announced, prev>>

\* the wait missing from the copy of init in ILI9488Rgb666
init_delay_one_variant ==
    /\ pc = "init_delay"
    /\ trace' = IF variant = "ILI9488Rgb565"
                THEN Append(trace, Ev("delay", "init", "delay_us", 120000, TRUE))
                ELSE trace
    /\ pc' = "init_common"
    /\ k' = 1
    /\ UNCHANGED <<variant, op, options, rst, colors, pos, pending, sent, result, ret, ncalls, okInits, announced, prev>>

\* delay.delay_us(120_000); then init_common is entered
init_delay ==
    /\ pc = "init_delay"
    /\ trace' = Append(trace, Ev("delay", "init", "delay_us", 120000, TRUE))
    /\ pc' = "init_common"
    /\ k' = 1
    /\ UNCHANGED <<variant, op, options, rst, colors, pos, pending, sent, result, ret, ncalls, okInits, announced, prev>>

\* one statement of init_common: a channel write followed by `?`, or a delay;
\* after the last statement init returns Ok(madctl)
init_common_step ==
    /\ pc = "init_common"
    /\ LET body == init_common(options, init_pf(variant))
           st   == body[k]
           last == (k = Len(body))
       IN  \E ok \in BOOLEAN :
             /\ (st.kind = "delay") => ok
             /\ trace' = Append(trace, Ev(st.kind, "init_common", st.name, st.arg, ok))
             /\ pc' = QPc(ok, IF last THEN "done" ELSE "init_common")
             /\ result' = IF ok /\ last THEN "Ok" ELSE QResult(ok, InitError_from)
             /\ ret' = IF ok /\ last THEN <<init_common_ret(options)>> ELSE ret
             /\ k' = k + 1
             /\ announced' = IF ok /\ st.name = "SetPixelFormat" THEN st.arg.dbi ELSE announced
    /\ UNCHANGED <<variant, op, options, rst, colors, pos, pending, sent, ncalls, okInits, prev>>

\* -------------------------------------------------------- write_pixels
\* write_pixels refusing to draw unless exactly one init has succeeded
write_pixels_guarded(cs) ==
    /\ pc = "idle"
    /\ ncalls < MaxCalls
    /\ op' = "write_pixels"
    /\ colors' = cs
    /\ pc' = IF okInits = 1 THEN "write_command" ELSE "done"
    /\ result' = IF okInits = 1 THEN result ELSE Error_DisplayError
    /\ ncalls' = ncalls + 1
    /\ UNCHANGED <<variant, options, rst, k, pos, pending, sent, trace, ret, okInits, announced, prev>>

\* write_pixels returning at once when there is nothing to draw
write_pixels_skip_empty(cs) ==
    /\ pc = "idle"
    /\ ncalls < MaxCalls
    /\ op' = "write_pixels"
    /\ colors' = cs
    /\ pc' = IF cs = <<>> THEN "done" ELSE "write_command"
    /\ result' = IF cs = <<>> THEN "Ok" ELSE result
    /\ ncalls' = ncalls + 1
    /\ UNCHANGED <<variant, options, rst, k, pos, pending, sent, trace, ret, okInits, announced, prev>>

\* a call of write_pixels(dcs, colors) begins
write_pixels(cs) ==
    /\ pc = "idle"
    /\ ncalls < MaxCalls
    /\ op' = "write_pixels"
    /\ colors' = cs
    /\ pc' = "write_command"
    /\ ncalls' = ncalls + 1
    /\ UNCHANGED <<variant, options, rst, k, pos, pending, sent, trace, result, ret, okInits, announced, prev>>

\* the result of write_command(WriteMemoryStart) dropped
write_memory_start_unchecked ==
    /\ pc = "write_command"
    /\ \E ok \in BOOLEAN :
          trace' = Append(trace, Ev("cmd", "write_pixels", "WriteMemoryStart", <<>>, ok))
    /\ pc' = "send_data"
    /\ UNCHANGED <<variant, op, options, rst, colors, k, pos, pending, sent, result, ret, ncalls, okInits, announced, prev>>

\* dcs.write_command(WriteMemoryStart)?
write_memory_start ==
    /\ pc = "write_command"
    /\ \E ok \in BOOLEAN :
          /\ trace' = Append(trace, Ev("cmd", "write_pixels", "WriteMemoryStart", <<>>, ok))
          /\ pc' = QPc(ok, "send_data")
          /\ result' = QResult(ok, Error_DisplayError)
    /\ UNCHANGED <<variant, op, options, rst, colors, k, pos, pending, sent, ret, ncalls, okInits, announced, prev>>

\* dcs.di.send_data(buf): the channel pulls the next item of the iterator
send_data_next ==
    /\ pc = "send_data"
    /\ iter_has_next
    /\ sent' = Append(sent, iter_next_item)
    /\ pos' = iter_next_pos
    /\ pending' = iter_next_pending
    /\ UNCHANGED <<variant, op, pc, options, rst, colors, k, trace, result, ret, ncalls, okInits, announced, prev>>

\* dcs.di.send_data(buf) returns: Ok once the iterator is drained, Err at
\* any point; its result is the result of write_pixels
send_data_return ==
    /\ pc = "send_data"
    /\ \E ok \in BOOLEAN :
          /\ ok => ~iter_has_next
          /\ trace' = Append(trace, Ev("data", "write_pixels", DataFormat(variant), sent, ok))
          /\ result' = IF ok THEN "Ok" ELSE Error_DisplayError
    /\ pc' = "done"
    /\ UNCHANGED <<variant, op, options, rst, colors, k, pos, pending, sent, ret, ncalls, okInits, announced, prev>>

\* the call has returned; the instance is ready for the next call
ReturnCore ==
    /\ pc = "done"
    /\ okInits' = IF op = "init" /\ result = "Ok" THEN okInits + 1 ELSE okInits
    /\ op' = "none"
    /\ pc' = "idle"
    /\ options' = NoOptions
    /\ rst' = FALSE
    /\ colors' = <<>>
    /\ k' = 0
    /\ pos' = 0
    /\ pending' = <<>>
    /\ sent' = <<>>
    /\ trace' = <<>>
    /\ result' = "none"
    /\ ret' = NoRet
    /\ UNCHANGED <<variant, ncalls, announced>>

Return ==
    ReturnCore /\ UNCHANGED prev

Next ==
    \/ \E o \in ModelOptionsSet, r \in BOOLEAN : init(o, r)
    \/ hard_reset_set_low
    \/ hard_reset_delay
    \/ hard_reset_set_high
    \/ soft_reset
    \/ init_delay
    \/ init_common_step
    \/ \E cs \in SeqsUpTo(ColorFormat(variant), MaxColors) : write_pixels(cs)
    \/ write_memory_start
    \/ send_data_next
    \/ send_data_return
    \/ Return

Spec ==
    Init /\ [][Next]_vars

\* ------------------------------------ the 18-bit encoder on whole channels
\* the values of a channel of the variant's ColorFormat
ChannelRange(v, j) ==
    0..(2 ^ ChannelBits(v)[j] - 1)

\* Rgb666 colors in which one channel takes every value
SweepColors ==
    LET v    == "ILI9488Rgb666"
        rest == {0, 21, 63}
    IN  { [r |-> x, g |-> y, b |-> z] : x \in ChannelRange(v, 1), y \in rest, z \in rest }
        \cup { [r |-> x, g |-> y, b |-> z] : x \in rest, y \in ChannelRange(v, 2), z \in rest }
        \cup { [r |-> x, g |-> y, b |-> z] : x \in rest, y \in rest, z \in ChannelRange(v, 3) }

InitSweep ==
    Init /\ variant = "ILI9488Rgb666"

NextSweep ==
    \/ \E c \in SweepColors : write_pixels(<<c>>)
    \/ write_memory_start
    \/ send_data_next
    \/ send_data_return
    \/ Return

SpecSweep ==
    InitSweep /\ [][NextSweep]_vars

\* ------------------------------------------- calls compared with calls
\* the inputs of the calls that are compared
HistOptions ==
    { o \in ModelOptionsSet :
        /\ o.invert_colors = (o.color_order = "Bgr")
        /\ o.invert_colors = (o.orientation = "Landscape") }

HistColors(v) ==
    { c \in ColorFormat(v) : c.r \in {1, 63, 31} }

\* the call has returned and is remembered
ReturnRecord ==
    /\ ReturnCore
    /\ prev' = [valid |-> TRUE, same |-> TRUE, variant |-> variant, op |-> op,
                options |-> options, rst |-> rst, colors |-> colors,
                trace |-> trace, result |-> result, ret |-> ret]

\* Builder::ili9488_rgb565(di) / Builder::ili9488_rgb666(di): a new Model
\* value, for a display that has not been initialised
Construct(v) ==
    /\ pc = "idle"
    /\ prev.valid
    /\ prev.same
    /\ v # variant
    /\ variant' = v
    /\ okInits' = 0
    /\ announced' = 0
    /\ prev' = [prev EXCEPT !.same = FALSE]
    /\ UNCHANGED <<op, pc, options, rst, colors, k, pos, pending, sent, trace, result, ret, ncalls>>

NextHist ==
    \/ \E o \in HistOptions, r \in BOOLEAN : init(o, r)
    \/ hard_reset_set_low
    \/ hard_reset_delay
    \/ hard_reset_set_high
    \/ soft_reset
    \/ init_delay
    \/ init_common_step
    \/ \E cs \in SeqsUpTo(HistColors(variant), MaxColors) : write_pixels(cs)
    \/ write_memory_start
    \/ send_data_next
    \/ send_data_return
    \/ ReturnRecord
    \/ \E v \in Variants : Construct(v)

SpecHist ==
    Init /\ [][NextHist]_vars

TypeOK ==
    /\ variant \in Variants
    /\ op \in {"none", "init", "write_pixels"}
    /\ result \in {"none", "Ok", "Pin", "DisplayError"}
    /\ ncalls \in 0..MaxCalls
    /\ okInits \in 0..ncalls
    /\ pos \in 0..Len(colors)
    /\ announced \in {0, 16, 18}
    /\ prev.valid \in BOOLEAN

\* ------------------------------------------------------ reading a trace
IsChan(e) ==
    e.kind \in {"cmd", "raw", "data"}

IsPin(e) ==
    e.kind = "pin"

IsSoftReset(e) ==
    e.kind = "cmd" /\ e.name = "SoftReset"

ChanWrites(t) ==
    SelectSeq(t, IsChan)

PinOps(t) ==
    SelectSeq(t, IsPin)

Names(t) ==
    [i \in 1..Len(t) |-> t[i].name]

Instrs(t) ==
    [i \in 1..Len(t) |-> IF t[i].kind = "raw" THEN t[i].arg.instr ELSE 0]

IsPrefix(a, b) ==
    Len(a) <= Len(b) /\ a = SubSeq(b, 1, Len(a))

AllOk(t) ==
    \A i \in 1..Len(t) : t[i].ok

\* the fixed order of section 4.3: commands by name, raw writes by opcode
FixedNames ==
    << "SetAddressMode", "SetInvertMode", "SetPixelFormat",
       "write_raw", "write_raw", "write_raw", "write_raw", "write_raw",
       "write_raw", "write_raw", "write_raw",
       "ExitSleepMode", "EnterNormalMode", "SetDisplayOn" >>

FixedInstrs ==
    << 0, 0, 0, 192, 193, 197, 177, 233, 224, 225, 182, 0, 0, 0 >>

\* the channel writes of an init call: the reset choice, then the fixed order
ExpectedNames(r) ==
    IF r THEN FixedNames ELSE <<"SoftReset">> \o FixedNames

ExpectedInstrs(r) ==
    IF r THEN FixedInstrs ELSE <<0>> \o FixedInstrs

InitReturnedOk ==
    op = "init" /\ pc = "done" /\ result = "Ok"

\* ---------------------------------------------------------------- C1
\* C1: a successful init writes to the channel, after the reset step,
\* exactly the fourteen commands of the fixed order, each once and in that
\* order, whatever the options, the variant and the reset choice.
C1_FixedOrder ==
    InitReturnedOk =>
        LET w    == ChanWrites(trace)
            body == IF rst THEN w ELSE Tail(w)
        IN  /\ Len(body) = 14
            /\ Names(body) = FixedNames
            /\ Instrs(body) = FixedInstrs

C1_Witness ==
    /\ InitReturnedOk
    /\ rst
    /\ options.invert_colors
    /\ options.orientation = "Landscape"
    /\ options.color_order = "Bgr"
    /\ Len(ChanWrites(trace)) = 14

\* ---------------------------------------------------------------- C2
\* C2: with a reset handle, init pulses the reset line (set_low first, then
\* set_high) and never writes SoftReset; without one, SoftReset is written
\* exactly once, as the first channel write, and the reset line is never
\* operated.
PastResetStep ==
    pc \in {"init_delay", "init_common"} \/ (pc = "done" /\ result # "Pin")

C2_ResetChoice ==
    op = "init" =>
        /\ rst =>
            /\ \A i \in 1..Len(trace) : ~IsSoftReset(trace[i])
            /\ pc # "hard_reset_set_low" =>
                  /\ Len(trace) >= 1
                  /\ trace[1].kind = "pin" /\ trace[1].name = "set_low"
            /\ PastResetStep =>
                  /\ Names(PinOps(trace)) = <<"set_low", "set_high">>
                  /\ AllOk(PinOps(trace))
        /\ ~rst =>
            /\ PinOps(trace) = <<>>
            /\ \A i \in 1..Len(trace) : trace[i].by # "hard_reset"
            /\ pc # "soft_reset" =>
                  /\ Len(trace) >= 1
                  /\ IsSoftReset(trace[1])
                  /\ Cardinality({i \in 1..Len(trace) : IsSoftReset(trace[i])}) = 1

C2_Witness ==
    /\ InitReturnedOk
    /\ ~rst
    /\ IsSoftReset(trace[1])
    /\ Len(trace) = 17

\* ---------------------------------------------------------------- C3
\* C3: a failed channel write ends init at once: it is the last operation
\* of the call, the call has returned the transport error, and the channel
\* writes of the call are a prefix of the fixed order ending in the failed
\* write (no retry, no later command or delay, no rollback command).
C3_FailFast ==
    op = "init" =>
        LET w == ChanWrites(trace)
        IN  /\ IsPrefix(Names(w), ExpectedNames(rst))
            /\ IsPrefix(Instrs(w), ExpectedInstrs(rst))
            /\ \A i \in 1..Len(trace) :
                  (IsChan(trace[i]) /\ ~trace[i].ok) =>
                      /\ i = Len(trace)
                      /\ pc = "done"
                      /\ result = "DisplayError"

C3_Witness ==
    /\ op = "init"
    /\ pc = "done"
    /\ result = "DisplayError"
    /\ Len(ChanWrites(trace)) = 9
    /\ ~trace[Len(trace)].ok
    /\ trace[Len(trace)].kind = "raw"
    /\ trace[Len(trace)].arg.instr = GMCTRP1

\* ---------------------------------------------------------------- C4
\* C4: errors are classified by origin.  init returns the pin error exactly
\* when a reset-line operation failed, the transport error exactly when a
\* channel write failed, and Ok only when nothing failed; write_pixels
\* returns Ok or the transport error, never the pin error.
PinFailed(t) ==
    \E i \in 1..Len(t) : IsPin(t[i]) /\ ~t[i].ok

ChanFailed(t) ==
    \E i \in 1..Len(t) : IsChan(t[i]) /\ ~t[i].ok

C4_ErrorOrigin ==
    /\ (op = "init" /\ pc = "done") =>
          /\ result \in {"Ok", "Pin", "DisplayError"}
          /\ (result = "Pin") <=> PinFailed(trace)
          /\ (result = "DisplayError") <=> ChanFailed(trace)
          /\ (result = "Ok") => AllOk(trace)
    /\ op = "write_pixels" =>
          /\ result # "Pin"
          /\ pc = "done" =>
                /\ result \in {"Ok", "DisplayError"}
                /\ (result = "DisplayError") <=> ChanFailed(trace)

C4_Witness ==
    /\ op = "init"
    /\ pc = "done"
    /\ result = "Pin"
    /\ Len(trace) = 3
    /\ trace[3].name = "set_high"
    /\ ~trace[3].ok

\* ---------------------------------------------------------------- C5
\* C5: beside the pulse width of hard_reset, an init call waits at most
\* twice, each time 120000 microseconds, and a successful init call waits
\* exactly twice.
IsFixedWait(e) ==
    e.kind = "delay" /\ e.by # "hard_reset"

FixedWaits(t) ==
    SelectSeq(t, IsFixedWait)

C5_TwoWaits ==
    op = "init" =>
        /\ Len(FixedWaits(trace)) <= 2
        /\ \A i \in 1..Len(FixedWaits(trace)) : FixedWaits(trace)[i].arg = 120000
        /\ (pc = "done" /\ result = "Ok") => Len(FixedWaits(trace)) = 2

C5_Witness ==
    /\ InitReturnedOk
    /\ rst
    /\ Len(FixedWaits(trace)) = 2
    /\ trace[2].kind = "delay"
    /\ trace[2].by = "hard_reset"
    /\ trace[2].arg = 120000

\* ------------------------------------------------- reading a data stream
IsWriteMemoryStart(e) ==
    e.kind = "cmd" /\ e.name = "WriteMemoryStart"

IsData(e) ==
    e.kind = "data"

\* the items one color contributes to the stream
ColorItems(v, c) ==
    IF v = "ILI9488Rgb565" THEN << into_storage(c) >> ELSE flat_map_closure(c)

RECURSIVE StreamOf(_, _)
StreamOf(v, cs) ==
    IF cs = <<>> THEN <<>>
    ELSE ColorItems(v, Head(cs)) \o StreamOf(v, Tail(cs))

ItemsPerColor(v) ==
    IF v = "ILI9488Rgb565" THEN 1 ELSE 3

WritePixelsReturnedOk ==
    op = "write_pixels" /\ pc = "done" /\ result = "Ok"

\* ---------------------------------------------------------------- C6
\* C6: write_pixels first writes WriteMemoryStart, once; data is pulled
\* only after that write succeeded; what the channel has pulled is always
\* the stream of the colors taken so far, in input order, each color taken
\* once; on success the one data transfer carried the whole input.
C6_StreamInOrder ==
    op = "write_pixels" =>
        /\ Len(trace) >= 1 => IsWriteMemoryStart(trace[1])
        /\ Cardinality({i \in 1..Len(trace) : IsWriteMemoryStart(trace[i])}) <= 1
        /\ (sent # <<>> \/ pos > 0 \/ \E i \in 1..Len(trace) : IsData(trace[i])) =>
              (Len(trace) >= 1 /\ trace[1].ok)
        /\ sent \o pending = StreamOf(variant, SubSeq(colors, 1, pos))
        /\ (pc = "done" /\ result = "Ok") =>
              /\ pos = Len(colors)
              /\ sent = StreamOf(variant, colors)
              /\ Len(trace) = 2
              /\ IsData(trace[2])
              /\ trace[2].arg = sent

C6_Witness ==
    /\ WritePixelsReturnedOk
    /\ variant = "ILI9488Rgb666"
    /\ Len(colors) = 2
    /\ colors[1] # colors[2]
    /\ Len(sent) = 6

\* ---------------------------------------------------------------- C7
\* C7: write_pixels with an empty sequence writes WriteMemoryStart once,
\* sends no data byte, and returns Ok unless the channel failed.
C7_EmptyInput ==
    (op = "write_pixels" /\ colors = <<>> /\ pc = "done") =>
        /\ Cardinality({i \in 1..Len(trace) : IsWriteMemoryStart(trace[i])}) = 1
        /\ WireBytes(DataFormat(variant), sent) = <<>>
        /\ \A i \in 1..Len(trace) : IsData(trace[i]) => trace[i].arg = <<>>
        /\ AllOk(trace) => result = "Ok"

C7_Witness ==
    /\ WritePixelsReturnedOk
    /\ colors = <<>>
    /\ Len(trace) = 2
    /\ AllOk(trace)

\* ---------------------------------------------------------------- C8
\* C8: in the 16-bit variant the bytes on the wire are, for each color
\* taken, the high byte then the low byte of r * 2^11 + g * 2^5 + b; a
\* successful call of n colors puts exactly 2 * n bytes on the wire.
Packed565(c) ==
    c.r * 2048 + c.g * 32 + c.b

C8_Rgb565Bytes ==
    (op = "write_pixels" /\ variant = "ILI9488Rgb565") =>
        LET bytes == WireBytes(DataFormat(variant), sent)
        IN  /\ Len(bytes) = 2 * pos
            /\ \A i \in 1..pos :
                  /\ bytes[2 * i - 1] = Packed565(colors[i]) \div 256
                  /\ bytes[2 * i] = Packed565(colors[i]) % 256
            /\ (pc = "done" /\ result = "Ok") => Len(bytes) = 2 * Len(colors)

C8_Witness ==
    /\ WritePixelsReturnedOk
    /\ variant = "ILI9488Rgb565"
    /\ Len(colors) = 2
    /\ colors[2] = [r |-> 1, g |-> 2, b |-> 3]
    /\ WireBytes(DataFormat(variant), sent)[3] = 8
    /\ WireBytes(DataFormat(variant), sent)[4] = 67

\* ---------------------------------------------------------------- C9
\* C9: in the 18-bit variant the bytes on the wire are, for each color
\* taken, its red, green and blue channel, each shifted left by two bits;
\* a successful call of n colors puts exactly 3 * n bytes on the wire.
Channel666(c, j) ==
    CASE j = 0 -> c.r
      [] j = 1 -> c.g
      [] OTHER -> c.b

C9_Rgb666Bytes ==
    (op = "write_pixels" /\ variant = "ILI9488Rgb666") =>
        LET bytes == WireBytes(DataFormat(variant), sent)
        IN  /\ Len(bytes) = 3 * pos - Len(pending)
            /\ \A i \in 1..Len(bytes) :
                  bytes[i] = (Channel666(colors[(i - 1) \div 3 + 1], (i - 1) % 3) * 4) % 256
            /\ (pc = "done" /\ result = "Ok") => Len(bytes) = 3 * Len(colors)

C9_Witness ==
    /\ WritePixelsReturnedOk
    /\ variant = "ILI9488Rgb666"
    /\ Len(colors) = 2
    /\ colors[2] = [r |-> 1, g |-> 2, b |-> 3]
    /\ SubSeq(sent, 4, 6) = <<4, 8, 12>>

\* ---------------------------------------------------------------- C10
\* C10: the pixel format init announces matches what write_pixels emits:
\* 16 bits per pixel and 2 bytes per color for ILI9488Rgb565, 18 bits per
\* pixel and 3 bytes per color for ILI9488Rgb666, whatever the options and
\* the reset choice.
VariantBits ==
    IF variant = "ILI9488Rgb565" THEN 16 ELSE 18

BytesPerColor(bits) ==
    (bits + 7) \div 8

C10_FormatMatches ==
    /\ op = "init" =>
          \A i \in 1..Len(trace) :
              (trace[i].kind = "cmd" /\ trace[i].name = "SetPixelFormat") =>
                  trace[i].arg = [dpi |-> VariantBits, dbi |-> VariantBits]
    /\ announced \in {0, VariantBits}
    /\ WritePixelsReturnedOk =>
          /\ Len(WireBytes(DataFormat(variant), sent)) = BytesPerColor(VariantBits) * Len(colors)
          /\ announced # 0 =>
                Len(WireBytes(DataFormat(variant), sent)) = BytesPerColor(announced) * Len(colors)

C10_Witness ==
    /\ WritePixelsReturnedOk
    /\ variant = "ILI9488Rgb666"
    /\ announced = 18
    /\ okInits = 1
    /\ Len(colors) = 1
    /\ Len(sent) = 3

\* ---------------------------------------------------------------- C11
\* C11: a successful init returns the descriptor it wrote with
\* SetAddressMode in that call, and two successful init calls with equal
\* options return equal descriptors, whatever the variant, the reset choice
\* and the calls made before.
IsSetAddressMode(e) ==
    e.kind = "cmd" /\ e.name = "SetAddressMode"

PrevInitOk ==
    prev.valid /\ prev.op = "init" /\ prev.result = "Ok"

C11_Descriptor ==
    InitReturnedOk =>
        /\ Len(ret) = 1
        /\ Cardinality({i \in 1..Len(trace) : IsSetAddressMode(trace[i])}) = 1
        /\ \A i \in 1..Len(trace) : IsSetAddressMode(trace[i]) => trace[i].arg = ret[1]
        /\ (PrevInitOk /\ prev.options = options) => prev.ret = ret

C11_Witness ==
    /\ InitReturnedOk
    /\ PrevInitOk
    /\ prev.options = options
    /\ prev.variant # variant
    /\ prev.rst # rst
    /\ ret = <<40>>

\* ---------------------------------------------------------------- C12
\* C12: the payload of SetInvertMode written by init is the invert_colors
\* flag of the options, and a successful init writes it exactly once.
IsSetInvertMode(e) ==
    e.kind = "cmd" /\ e.name = "SetInvertMode"

C12_InvertPayload ==
    op = "init" =>
        /\ \A i \in 1..Len(trace) :
              IsSetInvertMode(trace[i]) => trace[i].arg = options.invert_colors
        /\ (pc = "done" /\ result = "Ok") =>
              Cardinality({i \in 1..Len(trace) : IsSetInvertMode(trace[i])}) = 1

C12_Witness ==
    /\ InitReturnedOk
    /\ variant = "ILI9488Rgb565"
    /\ ~rst
    /\ options.invert_colors
    /\ IsSetInvertMode(trace[4])
    /\ trace[4].arg = TRUE

\* ------------------------------------------------- comparing two calls
IsPulse(e) ==
    e.kind = "delay" /\ e.by = "hard_reset"

\* what the collaborator decided in an operation: its outcome and, for the
\* pulse of hard_reset, its width
Resp(e) ==
    << e.ok, IF IsPulse(e) THEN e.arg ELSE 0 >>

SameResp(a, b, n) ==
    \A j \in 1..n : Resp(a[j]) = Resp(b[j])

\* two payloads chosen by the program agree (a data transfer shows as much
\* of the stream as the channel pulled)
SameArg(x, y) ==
    IF x.kind = "data"
    THEN IsPrefix(x.arg, y.arg) \/ IsPrefix(y.arg, x.arg)
    ELSE IsPulse(x) \/ x.arg = y.arg

\* two operations are the same request to the same collaborator
SameStep(x, y) ==
    /\ x.kind = y.kind
    /\ x.by = y.by
    /\ x.name = y.name
    /\ SameArg(x, y)

\* the same, leaving the payload of SetPixelFormat aside
SameStepButFormat(x, y) ==
    /\ x.kind = y.kind
    /\ x.by = y.by
    /\ x.name = y.name
    /\ (x.name = "SetPixelFormat" \/ SameArg(x, y))

MinLen(a, b) ==
    IF Len(a) <= Len(b) THEN Len(a) ELSE Len(b)

\* ---------------------------------------------------------------- C13
\* C13: an init call of one variant and an init call of the other variant
\* with equal options and equal reset choice perform the same operations
\* step for step as long as the collaborators answer alike, except for the
\* payload of SetPixelFormat; answered alike throughout, they are equally
\* long and return the same.
C13_SharedSequencer ==
    (/\ op = "init"
     /\ prev.valid
     /\ prev.op = "init"
     /\ prev.variant # variant
     /\ prev.options = options
     /\ prev.rst = rst) =>
        LET a == prev.trace
            b == trace
            n == MinLen(a, b)
        IN  /\ \A i \in 1..n : SameResp(a, b, i - 1) => SameStepButFormat(a[i], b[i])
            /\ SameResp(a, b, n) =>
                  /\ Len(b) <= Len(a)
                  /\ pc = "done" =>
                        /\ Len(b) = Len(a)
                        /\ result = prev.result
                        /\ ret = prev.ret

C13_Witness ==
    /\ InitReturnedOk
    /\ PrevInitOk
    /\ prev.variant # variant
    /\ prev.options = options
    /\ prev.rst = rst
    /\ rst
    /\ Len(trace) = Len(prev.trace)
    /\ trace # prev.trace
    /\ SameResp(prev.trace, trace, Len(trace))

\* ---------------------------------------------------------------- C14
\* C14: the Model keeps no state between calls: a call with the arguments
\* of the call before it on the same instance performs the same operations
\* step for step as long as the collaborators answer alike, and answered
\* alike throughout it is equally long and returns the same.
C14_Stateless ==
    (/\ op # "none"
     /\ prev.valid
     /\ prev.same
     /\ prev.op = op
     /\ prev.options = options
     /\ prev.rst = rst
     /\ prev.colors = colors) =>
        LET a == prev.trace
            b == trace
            n == MinLen(a, b)
        IN  /\ \A i \in 1..n : SameResp(a, b, i - 1) => SameStep(a[i], b[i])
            /\ SameResp(a, b, n) =>
                  /\ Len(b) <= Len(a)
                  /\ pc = "done" =>
                        /\ Len(b) = Len(a)
                        /\ result = prev.result
                        /\ ret = prev.ret

C14_Witness ==
    /\ InitReturnedOk
    /\ PrevInitOk
    /\ prev.same
    /\ prev.options = options
    /\ prev.rst = rst
    /\ okInits = 1
    /\ announced # 0
    /\ trace = prev.trace

\* ---------------------------------------------------------------- C15
\* C15 as stated: no write_pixels call writes WriteMemoryStart or sends
\* pixel data unless exactly one init call has returned Ok before it.
C15_OnlyAfterOneInit ==
    (op = "write_pixels" /\ (trace # <<>> \/ sent # <<>>)) => okInits = 1

\* C15 amended: write_pixels does not look at the calls made before it.
\* Whether zero, one or more init calls have returned Ok, every
\* write_pixels call writes WriteMemoryStart first and, when no channel
\* operation fails, returns Ok having sent the whole input.
C15_NoInitCheck ==
    op = "write_pixels" =>
        /\ pc # "write_command" =>
              (Len(trace) >= 1 /\ IsWriteMemoryStart(trace[1]))
        /\ (pc = "done" /\ AllOk(trace)) =>
              /\ result = "Ok"
              /\ Len(trace) = 2
              /\ sent = StreamOf(variant, colors)

C15_Witness ==
    /\ WritePixelsReturnedOk
    /\ okInits = 0
    /\ announced = 0
    /\ ncalls = 1
    /\ Len(colors) = 1
    /\ sent # <<>>

\* ---------------------------------------------------------------- C16
\* C16: the eight raw writes of init carry fixed opcodes and fixed
\* payloads, in a fixed order, whatever the options, the variant and the
\* reset choice.
IsRaw(e) ==
    e.kind = "raw"

RawWrites(t) ==
    [i \in 1..Len(SelectSeq(t, IsRaw)) |-> SelectSeq(t, IsRaw)[i].arg]

FixedRaw ==
    << [instr |-> 192, params |-> <<23, 21>>],
       [instr |-> 193, params |-> <<65>>],
       [instr |-> 197, params |-> <<0, 18, 128>>],
       [instr |-> 177, params |-> <<160>>],
       [instr |-> 233, params |-> <<0>>],
       [instr |-> 224, params |-> <<0, 3, 9, 8, 22, 10, 63, 120, 76, 9, 10, 8, 22, 26, 15>>],
       [instr |-> 225, params |-> <<0, 14, 20, 3, 17, 7, 49, 193, 72, 8, 15, 12, 49, 54, 15>>],
       [instr |-> 182, params |-> <<2, 2, 59>>] >>

C16_ConstantTables ==
    op = "init" =>
        /\ IsPrefix(RawWrites(trace), FixedRaw)
        /\ (pc = "done" /\ result = "Ok") => RawWrites(trace) = FixedRaw

C16_Witness ==
    /\ InitReturnedOk
    /\ variant = "ILI9488Rgb666"
    /\ options.orientation = "Landscape"
    /\ ~options.invert_colors
    /\ Len(RawWrites(trace)) = 8
    /\ Len(RawWrites(trace)[6].params) = 15
    /\ Len(RawWrites(trace)[7].params) = 15

\* ---------------------------------------------------------------- C17
\* C17: the first 120000 microsecond wait follows the reset step directly
\* and precedes SetAddressMode, so only SoftReset is ever written before
\* it, and the soft-reset branch has no wait of its own; the second wait
\* stands between EnterNormalMode and SetDisplayOn.
IsWait(e) ==
    e.kind = "delay" /\ e.by # "hard_reset" /\ e.arg = 120000

IsCmdNamed(e, n) ==
    e.kind = "cmd" /\ e.name = n

C17_WaitPlaces ==
    op = "init" =>
        /\ \A i \in 1..Len(trace) :
              (IsChan(trace[i]) /\ ~IsSoftReset(trace[i])) =>
                  \E j \in 1..(i - 1) : IsWait(trace[j])
        /\ \A i \in 1..Len(trace) :
              IsCmdNamed(trace[i], "SetAddressMode") =>
                  /\ i = IF rst THEN 5 ELSE 3
                  /\ IsWait(trace[i - 1])
                  /\ \A j \in 1..(i - 2) : trace[j].ok /\ ~IsWait(trace[j])
        /\ \A i \in 1..Len(trace) :
              IsCmdNamed(trace[i], "SetDisplayOn") =>
                  /\ i >= 3
                  /\ IsWait(trace[i - 1])
                  /\ IsCmdNamed(trace[i - 2], "EnterNormalMode")
                  /\ trace[i - 2].ok

C17_Witness ==
    /\ InitReturnedOk
    /\ variant = "ILI9488Rgb666"
    /\ ~rst
    /\ IsSoftReset(trace[1])
    /\ IsWait(trace[2])
    /\ IsWait(trace[Len(trace) - 1])
    /\ IsCmdNamed(trace[Len(trace)], "SetDisplayOn")

\* ---------------------------------------------------------------- C18
\* C18: when WriteMemoryStart fails, write_pixels returns the transport
\* error with no data sent and no color taken from the input; when the
\* data transfer fails, its error is returned and nothing is retried.
C18_WritePixelsErrors ==
    op = "write_pixels" =>
        /\ (Len(trace) >= 1 /\ ~trace[1].ok) =>
              /\ pc = "done"
              /\ result = "DisplayError"
              /\ Len(trace) = 1
              /\ sent = <<>>
              /\ pos = 0
              /\ pending = <<>>
        /\ \A i \in 1..Len(trace) :
              (IsData(trace[i]) /\ ~trace[i].ok) =>
                  /\ pc = "done"
                  /\ result = "DisplayError"
                  /\ i = 2
                  /\ Len(trace) = 2
        /\ Cardinality({i \in 1..Len(trace) : IsData(trace[i])}) <= 1

C18_Witness ==
    /\ op = "write_pixels"
    /\ pc = "done"
    /\ Len(colors) = 2
    /\ Len(trace) = 1
    /\ ~trace[1].ok
    /\ result = "DisplayError"

\* ---------------------------------------------------------------- C19
\* C19: when a reset handle is supplied and the hardware reset fails, init
\* returns the pin error with nothing written to the channel and neither
\* 120000 microsecond wait performed; the channel is written only after
\* both pin operations have succeeded.
C19_ResetFailure ==
    (op = "init" /\ rst) =>
        /\ PinFailed(trace) =>
              /\ pc = "done"
              /\ result = "Pin"
              /\ ChanWrites(trace) = <<>>
              /\ FixedWaits(trace) = <<>>
              /\ IsPin(trace[Len(trace)])
              /\ ~trace[Len(trace)].ok
        /\ \A i \in 1..Len(trace) :
              (IsChan(trace[i]) \/ IsFixedWait(trace[i])) =>
                  /\ i > 3
                  /\ Names(PinOps(SubSeq(trace, 1, i - 1))) = <<"set_low", "set_high">>
                  /\ AllOk(SubSeq(trace, 1, i - 1))

C19_Witness ==
    /\ op = "init"
    /\ rst
    /\ pc = "done"
    /\ result = "Pin"
    /\ Len(trace) = 1
    /\ trace[1].name = "set_low"
    /\ ~trace[1].ok

\* ---------------------------------------------------------------- C20
\* C20: in the 18-bit variant the shift never leaves the byte: every byte
\* sent is 4 times its channel value, a multiple of 4 in 0..252, so the
\* color is recovered from its three bytes and distinct colors are sent as
\* distinct byte groups.
Decoded(bytes) ==
    [r |-> bytes[1] \div 4, g |-> bytes[2] \div 4, b |-> bytes[3] \div 4]

C20_ShiftInRange ==
    (op = "write_pixels" /\ variant = "ILI9488Rgb666") =>
        /\ \A i \in 1..Len(sent) :
              /\ sent[i] = 4 * Channel666(colors[(i - 1) \div 3 + 1], (i - 1) % 3)
              /\ sent[i] % 4 = 0
              /\ sent[i] \in 0..252
        /\ \A n \in 1..Len(colors) :
              Len(sent) >= 3 * n => Decoded(SubSeq(sent, 3 * n - 2, 3 * n)) = colors[n]

C20_Witness ==
    /\ WritePixelsReturnedOk
    /\ variant = "ILI9488Rgb666"
    /\ colors = << [r |-> 63, g |-> 21, b |-> 37] >>
    /\ sent = <<252, 84, 148>>

====
